---- MODULE Spec2Model ----
(***************************************************************************)
(* Model of epub_split_images.py: the conversion of one EPUB archive by    *)
(* process_one / build_new_epub.  One run is one behaviour: the archive is *)
(* unpacked, the package document is located and parsed, every markup      *)
(* document is walked node by node and split into image pages and text     *)
(* pages, toc.ncx and content.opf are generated and the result is zipped   *)
(* to the output path.                                                     *)
(*                                                                         *)
(* Strings that the program builds and compares (file names, manifest ids) *)
(* are sequences of one-character strings, so that formatting and slugify  *)
(* are computed character by character.                                    *)
(***************************************************************************)
EXTENDS Integers, Sequences, FiniteSets, TLC

(* ------------------------------- bounds ------------------------------- *)
\* candidates of the document loop (html_candidates) per archive
MaxDocs == 2
\* nodes of body.descendants, summed over the documents of one archive
MaxNodes == 3
\* stylesheet items of the original manifest
MaxCss == 1
\* dc:* children of the original metadata element
MaxDc == 2

(* -------------------------- program constants ------------------------- *)
min_w == 2
min_h == 2
ZIP_STORED == "ZIP_STORED"
ZIP_DEFLATED == "ZIP_DEFLATED"
\* zipfile.ZipFile(out_path, "w"): no compression argument is passed, so the
\* archive's default compression is the library default, ZIP_STORED.
ZipFileCompression == ZIP_STORED

(* ------------------------------ strings ------------------------------- *)
S_img == <<"i", "m", "g">>
S_imgpage == <<"i", "m", "g", "p", "a", "g", "e">>
S_textpage == <<"t", "e", "x", "t", "p", "a", "g", "e">>
S_ncx == <<"n", "c", "x">>
S_untitled == <<"u", "n", "t", "i", "t", "l", "e", "d">>
S_png == <<".", "p", "n", "g">>
S_xhtml == <<".", "x", "h", "t", "m", "l">>
S_css == <<".", "c", "s", "s">>

DigitChar(d) ==
    CASE d = 0 -> "0" [] d = 1 -> "1" [] d = 2 -> "2" [] d = 3 -> "3"
      [] d = 4 -> "4" [] d = 5 -> "5" [] d = 6 -> "6" [] d = 7 -> "7"
      [] d = 8 -> "8" [] d = 9 -> "9"

\* str(n) for n >= 0
RECURSIVE Digits(_)
Digits(n) ==
    IF n < 10 THEN <<DigitChar(n)>>
    ELSE Digits(n \div 10) \o <<DigitChar(n % 10)>>

RECURSIVE ZeroPad(_, _)
ZeroPad(s, w) == IF Len(s) >= w THEN s ELSE ZeroPad(<<"0">> \o s, w)

\* f"{n:04d}"
Fmt04d(n) == ZeroPad(Digits(n), 4)

WhitespaceChars == {" ", "\t"}
SlugChars ==
    {"a", "b", "c", "d", "e", "f", "g", "h", "i", "j", "k", "l", "m",
     "n", "o", "p", "q", "r", "s", "t", "u", "v", "w", "x", "y", "z",
     "A", "B", "C", "D", "E", "F", "G", "H", "I", "J", "K", "L", "M",
     "N", "O", "P", "Q", "R", "S", "T", "U", "V", "W", "X", "Y", "Z",
     "0", "1", "2", "3", "4", "5", "6", "7", "8", "9", "_", "-", "."}

\* text.strip()
RECURSIVE Strip(_)
Strip(s) ==
    IF s = <<>> THEN s
    ELSE IF Head(s) \in WhitespaceChars THEN Strip(Tail(s))
    ELSE IF s[Len(s)] \in WhitespaceChars THEN Strip(SubSeq(s, 1, Len(s) - 1))
    ELSE s

\* re.sub(r"\s+", "-", s): every maximal run of whitespace becomes one "-"
RECURSIVE WsToDash(_)
WsToDash(s) ==
    IF s = <<>> THEN s
    ELSE IF Head(s) \in WhitespaceChars
         THEN IF Len(s) > 1 /\ s[2] \in WhitespaceChars
              THEN WsToDash(Tail(s))
              ELSE <<"-">> \o WsToDash(Tail(s))
         ELSE <<Head(s)>> \o WsToDash(Tail(s))

slugify(text) ==
    LET kept == SelectSeq(WsToDash(Strip(text)), LAMBDA c : c \in SlugChars)
    IN  IF kept = <<>> THEN S_untitled ELSE kept

(* ---------------------------- source files ---------------------------- *)
\* Directories of the unpacked source: the package document's directory and
\* one subdirectory of it.  A markup document lives in one of them.
Dirs == {"opf", "sub"}
\* values of an img node's src attribute ("" is a missing attribute)
Srcs == {"x.png"}
\* resolved absolute paths of image files
Paths == [dir : Dirs, name : Srcs]
\* no path
NoPath == [dir |-> "", name |-> ""]

\* what a path holds: nothing, a file PIL cannot decode, or an image w x h
Unseen == [kind |-> "unseen", w |-> 0, h |-> 0]
Missing == [kind |-> "missing", w |-> 0, h |-> 0]
Undecodable == [kind |-> "undecodable", w |-> 0, h |-> 0]
Sizes == {1, 2}
FileStates == {Missing, Undecodable} \cup [kind : {"image"}, w : Sizes, h : Sizes]

\* src_path.suffix.lower()
suffix_lower(path) == IF path.name = "x.png" THEN S_png ELSE <<>>

(* ------------------------- markup documents --------------------------- *)
\* A parsed document body is the sequence body.descendants: its nodes in
\* document order (pre-order), each with its nesting depth.  name is the tag
\* name; a text node (NavigableString, whose name is None) has name "#text"
\* and holds non-blank text.  Only an img carries a src ("" when absent).
TextName == "#text"
NodeNames == {"div", TextName, "img"}

Nodes(maxDepth) ==
    {n \in [name : NodeNames, depth : 1..maxDepth, src : Srcs \cup {""}] :
        n.name # "img" => n.src = ""}

\* pre-order: the first node is a child of body; a node is a child of the
\* previous node only if that one is an element, and otherwise a sibling of
\* the previous node or of one of its ancestors.
WellFormed(d) ==
    /\ Len(d) > 0 => d[1].depth = 1
    /\ \A i \in 2..Len(d) :
          d[i].depth <= (IF d[i - 1].name = "div" THEN d[i - 1].depth + 1
                         ELSE d[i - 1].depth)

DocsOfLen(n) == {d \in [1..n -> Nodes(n)] : WellFormed(d)}
\* every document of at most MaxNodes nodes, by its number of nodes
AllDocs == [n \in 0..MaxNodes |-> DocsOfLen(n)]
\* the documents of one node
OneNodeDocs == [n \in 0..MaxNodes |-> IF n = 1 THEN DocsOfLen(1) ELSE {}]

\* index of the last node of the subtree rooted at node i
SubtreeEnd(d, i) ==
    CHOOSE j \in i..Len(d) :
        /\ \A k \in (i + 1)..j : d[k].depth > d[i].depth
        /\ j = Len(d) \/ d[j + 1].depth <= d[i].depth

RECURSIVE Range(_, _)
Range(a, b) == IF a > b THEN <<>> ELSE <<a>> \o Range(a + 1, b)

\* clone = BeautifulSoup(str(node), "lxml") with every img decomposed: the
\* nodes of the subtree of node i, in order, without its img nodes
Clone(d, i) ==
    SelectSeq(Range(i, SubtreeEnd(d, i)), LAMBDA j : d[j].name # "img")

\* str(clone): the markup of the cloned nodes, each with the node of the
\* document it renders
Markup(d, clone) ==
    [k \in 1..Len(clone) |-> [node |-> clone[k], name |-> d[clone[k]].name]]

\* clone.get_text(strip=True)
HasText(d, clone) == \E k \in 1..Len(clone) : d[clone[k]].name = TextName

\* extract_text_fragment(nodes): the markup of the clones of the pending
\* nodes that hold text, in the order of the pending list
RECURSIVE extract_text_fragment(_, _)
extract_text_fragment(d, nodes) ==
    IF nodes = <<>> THEN <<>>
    ELSE LET node == Head(nodes)
             rest == extract_text_fragment(d, Tail(nodes))
         IN  IF d[node].name \in {"img", "script", "style"} THEN rest
             ELSE IF HasText(d, Clone(d, node)) THEN <<Markup(d, Clone(d, node))>> \o rest
             ELSE rest

(* ------------------------------- state -------------------------------- *)
VARIABLES
    pc,                 \* position in process_one / build_new_epub
    err,                \* the RuntimeError / OSError that ended the run, or ""
    images_only,        \* parameter images_only
    fs,                 \* source image files, as far as the run has looked
    tmpdir,             \* process_one's TemporaryDirectory exists
    newroot,            \* build_new_epub's scratch tree exists
    css_files,          \* css_files
    styles_dir,         \* file names in newroot/OEBPS/Styles
    doc_idx,            \* candidates of html_candidates taken so far
    doc_dir,            \* directory of the current document
    doc,                \* body.descendants of the current document
    pos,                \* index in doc of the next node of the loop
    nodes_seen,         \* nodes of the documents opened so far
    pending_text_nodes, \* pending_text_nodes (indices into doc)
    img_manifest,       \* img_manifest
    page_manifest,      \* page_manifest
    navpoints,          \* navpoints
    img_id_counter,     \* img_id_counter
    page_id_counter,    \* page_id_counter
    text_seq_counter,   \* text_seq_counter
    copied_images,      \* copied_images: resolved path -> generated name
    images_dir,         \* file names in newroot/OEBPS/Images, in copy order
    text_files,         \* pages written to newroot/OEBPS/Text, in write order
    ref_count,          \* history: per resolved path, the img nodes visited
                        \* so far that resolved to it (NoPath: to none)
    md_dc,              \* md["dc"]
    book_uid,           \* book_uid
    ncx,                \* generated toc.ncx
    opf,                \* generated content.opf
    out_state,          \* the file at out_path
    out_entries,        \* entries of the archive at out_path, in order
    zip_todo            \* files of os.walk(newroot) still to be written

scratchVars == <<tmpdir, newroot>>
srcVars == <<images_only, fs, css_files, styles_dir>>
walkVars == <<doc_idx, doc_dir, doc, pos, nodes_seen, pending_text_nodes>>
pageVars == <<page_manifest, navpoints, page_id_counter, text_seq_counter,
              text_files>>
assetVars == <<img_manifest, img_id_counter, copied_images, images_dir,
               ref_count>>
pkgVars == <<md_dc, book_uid, ncx, opf>>
outVars == <<out_state, out_entries, zip_todo>>
vars == <<pc, err, scratchVars, srcVars, walkVars, pageVars, assetVars, pkgVars, outVars>>

None == <<>>
XHTML == "application/xhtml+xml"

\* name.rfind("."): the position of the last dot of name, 0 without one
RECURSIVE LastDot(_)
LastDot(name) ==
    IF name = <<>> THEN 0
    ELSE IF name[Len(name)] = "." THEN Len(name)
    ELSE LastDot(SubSeq(name, 1, Len(name) - 1))

\* Path(name).suffix: from the last dot on, unless that dot starts or ends
\* the name
Suffix(name) ==
    LET dot == LastDot(name)
    IN  IF 1 < dot /\ dot < Len(name) THEN SubSeq(name, dot, Len(name))
        ELSE <<>>

\* Path(name).stem
Stem(name) == SubSeq(name, 1, Len(name) - Len(Suffix(name)))

guess_mime(name) ==
    LET ext == Suffix(name)
    IN  IF ext \in {S_xhtml, <<".", "h", "t", "m", "l">>, <<".", "h", "t", "m">>}
        THEN XHTML
        ELSE IF ext = S_css THEN "text/css"
        ELSE IF ext = S_png THEN "image/png"
        ELSE "application/octet-stream"

\* The page-writing closures work on the record of the variables they share.
Pages ==
    [page_manifest |-> page_manifest, navpoints |-> navpoints,
     page_id_counter |-> page_id_counter, text_seq_counter |-> text_seq_counter,
     text_files |-> text_files]

Assets ==
    [img_manifest |-> img_manifest, img_id_counter |-> img_id_counter,
     images_dir |-> images_dir]

\* Name of the title of the text pages of the i-th candidate:
\* Path(html_href).stem, here "d<i>"
base_title(i) == <<"d">> \o Digits(i)

\* write_image_page(newname, alt_text); from and path record which img node
\* and which resolved file the page was written for.  alt_text only fills
\* the alt attribute of the page's img element and is left out of the page.
write_image_page(ps, newname, from, path) ==
    LET title == Stem(newname)
        page_name == S_imgpage \o Fmt04d(ps.page_id_counter) \o S_xhtml
        href == [dir |-> "Text", name |-> page_name]
    IN  [ps EXCEPT
            !.page_id_counter = @ + 1,
            !.text_files = Append(@, [name |-> page_name, kind |-> "image",
                                      title |-> title, img_href |-> newname,
                                      css |-> css_files, content |-> <<>>,
                                      doc |-> from.doc, node |-> from.node,
                                      path |-> path]),
            !.page_manifest = Append(@, [id |-> Stem(page_name), href |-> href,
                                        mt |-> XHTML]),
            !.navpoints = Append(@, [label |-> title, src |-> href])]

\* write_text_page(fragment_html, suggest_title)
write_text_page(ps, fragment_html, suggest_title, from) ==
    IF images_only THEN ps
    ELSE IF fragment_html = <<>> THEN ps
    ELSE
    LET title == suggest_title \o <<" ">> \o Digits(ps.text_seq_counter)
        page_name == S_textpage \o Fmt04d(ps.page_id_counter) \o S_xhtml
        href == [dir |-> "Text", name |-> page_name]
    IN  [ps EXCEPT
            !.text_seq_counter = @ + 1,
            !.page_id_counter = @ + 1,
            !.text_files = Append(@, [name |-> page_name, kind |-> "text",
                                      title |-> title, img_href |-> None,
                                      css |-> css_files,
                                      content |-> fragment_html,
                                      doc |-> from.doc, node |-> from.node,
                                      path |-> NoPath]),
            !.page_manifest = Append(@, [id |-> Stem(page_name), href |-> href,
                                        mt |-> XHTML]),
            !.navpoints = Append(@, [label |-> title, src |-> href])]

\* flush_text() runs its body when text pages are wanted and nodes are pending
Flushes(pending) == ~images_only /\ pending # <<>>

\* flush_text(): the pages after the call
flush_text(ps, pending, from) ==
    IF Flushes(pending)
    THEN write_text_page(ps, extract_text_fragment(doc, pending),
                         base_title(from.doc), from)
    ELSE ps

\* flush_text(): pending_text_nodes after the call
flush_pending(pending) == IF Flushes(pending) THEN <<>> ELSE pending

\* the size test with "and" for "or": only an image too small both ways
TooSmallBothWays(file) ==
    /\ file.kind = "image"
    /\ file.w < min_w /\ file.h < min_h

\* the size test of copy_image: a decodable image below the minimum
TooSmall(file) ==
    /\ file.kind = "image"
    /\ file.w < min_w \/ file.h < min_h

\* copy_image(src_path): the generated name (None for a placeholder) and the
\* asset variables after the call
copy_image(as, src_path, file) ==
    IF TooSmall(file) THEN [name |-> None, as |-> as]
    ELSE
    LET name == S_img \o Fmt04d(as.img_id_counter) \o suffix_lower(src_path)
        next == as.img_id_counter + 1
    IN  [name |-> name,
         as |-> [img_id_counter |-> next,
                 images_dir |-> Append(as.images_dir, name),
                 img_manifest |->
                     Append(as.img_manifest,
                            [id |-> S_img \o Digits(next),
                             href |-> [dir |-> "Images", name |-> name],
                             mt |-> guess_mime(name)])]]

(* --------------------------- original package ------------------------- *)
S_style == <<"s", "t", "y", "l", "e">>
\* hrefs of text/css items of the original manifest (the extension is .css)
CssHrefs ==
    {[dir |-> "a", stem |-> S_style], [dir |-> "b", stem |-> S_style],
     [dir |-> "", stem |-> S_ncx], [dir |-> "", stem |-> <<"m", "y", " ", "s">>],
     [dir |-> "", stem |-> <<"i", "m", "g", "2">>]}
CssItems == [href : CssHrefs, exists : BOOLEAN]

\* the text/css items of items_by_href in dictionary order: every sequence of
\* at most MaxCss items with pairwise different hrefs
AllCss ==
    UNION {{c \in [1..n -> CssItems] :
               \A i, j \in 1..n : i # j => c[i].href # c[j].href} :
           n \in 0..MaxCss}
\* a package with the one stylesheet a/style.css
OneCss == {<<[href |-> [dir |-> "a", stem |-> S_style], exists |-> TRUE]>>}

\* (localname, text) of the dc:* children of the original metadata
DcEntries ==
    {<<"identifier", "">>, <<"identifier", "urn:isbn:A">>,
     <<"identifier", "urn:isbn:B">>, <<"title", "T">>}
AllMd == UNION {[1..n -> DcEntries] : n \in 0..MaxDc}
\* a package with a title and an identifier
OneMd == {<<<<"title", "T">>, <<"identifier", "urn:isbn:A">>>>}
\* values of f"urn:uuid:{uuid4()}"
Uuids == {"urn:uuid:1", "urn:uuid:2"}

(* ------------------------------ the run ------------------------------- *)
Init ==
    /\ pc = "unzip_epub"
    /\ err = ""
    /\ images_only \in BOOLEAN
    /\ fs = [p \in Paths |-> Unseen]
    /\ tmpdir = FALSE
    /\ newroot = FALSE
    /\ css_files = <<>>
    /\ styles_dir = <<>>
    /\ doc_idx = 0
    /\ doc_dir = "opf"
    /\ doc = <<>>
    /\ pos = 1
    /\ nodes_seen = 0
    /\ pending_text_nodes = <<>>
    /\ img_manifest = <<>>
    /\ page_manifest = <<>>
    /\ navpoints = <<>>
    /\ img_id_counter = 1
    /\ page_id_counter = 1
    /\ text_seq_counter = 1
    /\ copied_images = <<>>
    /\ images_dir = <<>>
    /\ text_files = <<>>
    /\ ref_count = [p \in Paths \cup {NoPath} |-> 0]
    /\ md_dc = <<>>
    /\ book_uid = ""
    /\ ncx = [dtb_uid |-> "", navMap |-> <<>>]
    /\ opf = [unique_identifier |-> "", metadata |-> <<>>, manifest |-> <<>>,
              spine |-> <<>>]
    /\ out_state = "absent"
    /\ out_entries = <<>>
    /\ zip_todo = <<>>

\* An exception leaves build_new_epub through its finally block and
\* process_one through its TemporaryDirectory; main() reports it.
Raise(e) ==
    /\ pc' = "failed"
    /\ err' = e
    /\ tmpdir' = FALSE
    /\ newroot' = FALSE

\* process_one: the archive is unpacked into the temporary directory
Unzip ==
    /\ pc = "unzip_epub"
    /\ pc' = "find_opf"
    /\ tmpdir' = TRUE
    /\ UNCHANGED <<err, newroot, srcVars, walkVars, pageVars, assetVars,
                   pkgVars, outVars>>

\* find_opf
FindOpf ==
    /\ pc = "find_opf"
    /\ \E container_exists, has_rootfile \in BOOLEAN :
          IF ~container_exists
          THEN Raise("META-INF/container.xml nicht gefunden")
          ELSE IF ~has_rootfile
          THEN Raise("OPF-Pfad in container.xml fehlt")
          ELSE pc' = "parse_opf" /\ UNCHANGED <<err, scratchVars>>
    /\ UNCHANGED <<srcVars, walkVars, pageVars, assetVars, pkgVars, outVars>>

\* parse_opf
ParseOpf ==
    /\ pc = "parse_opf"
    /\ \E has_manifest_and_spine \in BOOLEAN :
          IF ~has_manifest_and_spine
          THEN Raise("Manifest/Spine im OPF fehlt")
          ELSE pc' = "build_new_epub" /\ UNCHANGED <<err, scratchVars>>
    /\ UNCHANGED <<srcVars, walkVars, pageVars, assetVars, pkgVars, outVars>>

\* css_files after the stylesheet loop over the items c
RECURSIVE CopiedCss(_)
CopiedCss(c) ==
    IF c = <<>> THEN <<>>
    ELSE IF Head(c).exists
         THEN <<[dir |-> "Styles", name |-> Head(c).href.stem \o S_css]>>
              \o CopiedCss(Tail(c))
         ELSE CopiedCss(Tail(c))

\* the elements of a sequence, each once, in order of first occurrence
RECURSIVE Distinct(_)
Distinct(q) ==
    IF q = <<>> THEN <<>>
    ELSE LET front == Distinct(SubSeq(q, 1, Len(q) - 1))
         IN  IF \E k \in 1..Len(front) : front[k] = q[Len(q)] THEN front
             ELSE Append(front, q[Len(q)])

\* build_new_epub up to the document loop: scratch tree, container.xml and
\* the stylesheets of the original manifest
BuildStart(cssInputs) ==
    /\ pc = "build_new_epub"
    /\ \E c \in cssInputs :
          /\ css_files' = CopiedCss(c)
          /\ styles_dir' = Distinct([k \in 1..Len(CopiedCss(c)) |->
                                        CopiedCss(c)[k].name])
    /\ newroot' = TRUE
    /\ pc' = "html_candidates"
    /\ UNCHANGED <<err, tmpdir, images_only, fs, walkVars, pageVars, assetVars,
                   pkgVars, outVars>>

\* for html_href in html_candidates: the file does not exist
SkipDocument ==
    /\ pc = "html_candidates"
    /\ doc_idx < MaxDocs
    /\ doc_idx' = doc_idx + 1
    /\ UNCHANGED <<pc, err, scratchVars, srcVars, doc_dir, doc, pos, nodes_seen,
                   pending_text_nodes, pageVars, assetVars, pkgVars, outVars>>

\* for html_href in html_candidates: the file is parsed.  html_candidates is
\* any list of at most MaxDocs hrefs: the spine and the manifest it is
\* filtered from are inputs.
OpenDocument(docs, dirs) ==
    /\ pc = "html_candidates"
    /\ doc_idx < MaxDocs
    /\ \E dir \in dirs, n \in 0..(MaxNodes - nodes_seen) :
       \E d \in docs[n] :
          /\ doc_dir' = dir
          /\ doc' = d
          /\ nodes_seen' = nodes_seen + Len(d)
    /\ doc_idx' = doc_idx + 1
    /\ pos' = 1
    /\ pending_text_nodes' = <<>>
    /\ pc' = "descendants"
    /\ UNCHANGED <<err, scratchVars, srcVars, pageVars, assetVars, pkgVars,
                   outVars>>

SetPages(ps) ==
    /\ page_manifest' = ps.page_manifest
    /\ navpoints' = ps.navpoints
    /\ page_id_counter' = ps.page_id_counter
    /\ text_seq_counter' = ps.text_seq_counter
    /\ text_files' = ps.text_files

\* for node in body.descendants: any node but an img
VisitOther ==
    /\ pc = "descendants"
    /\ pos <= Len(doc)
    /\ doc[pos].name # "img"
    /\ pending_text_nodes' = Append(pending_text_nodes, pos)
    /\ pos' = pos + 1
    /\ UNCHANGED <<pc, err, scratchVars, srcVars, doc_idx, doc_dir, doc,
                   nodes_seen, pageVars, assetVars, pkgVars, outVars>>

\* what the file system answers for a path: a file seen before is unchanged
Observe(f, path) == IF f[path] = Unseen THEN FileStates ELSE {f[path]}

\* one more img node resolved to path
Counted(path) == ref_count' = [ref_count EXCEPT ![path] = @ + 1]

\* an img without src, or whose src resolves to no file
Unresolved == Counted(NoPath)

\* a lookup that never finds the key
NeverCopied(copied, key) == FALSE

\* key not in copied_images, turned round
IsCopied(copied, key) == key \in DOMAIN copied

\* the img branch from key = str(src_path) on
ImageFound(ps, src_path, from) ==
    LET key == src_path
        known == IsCopied(copied_images, key)
        copy == copy_image(Assets, src_path, fs'[src_path])
        newname == IF known THEN copied_images[key] ELSE copy.name
    IN  /\ Counted(src_path)
        /\ IF ~known /\ newname = None
           THEN /\ SetPages(ps)
                /\ UNCHANGED <<img_manifest, img_id_counter, copied_images,
                               images_dir>>
           ELSE /\ SetPages(write_image_page(ps, newname, from, src_path))
                /\ IF known
                   THEN UNCHANGED <<img_manifest, img_id_counter,
                                    copied_images, images_dir>>
                   ELSE /\ copied_images' = copied_images @@ (key :> newname)
                        /\ img_manifest' = copy.as.img_manifest
                        /\ img_id_counter' = copy.as.img_id_counter
                        /\ images_dir' = copy.as.images_dir

\* for node in body.descendants: an img
VisitImg ==
    /\ pc = "descendants"
    /\ pos <= Len(doc)
    /\ doc[pos].name = "img"
    /\ LET src == doc[pos].src
           from == [doc |-> doc_idx, node |-> pos]
           ps == flush_text(Pages, pending_text_nodes, from)
           in_doc_dir == [dir |-> doc_dir, name |-> src]
           alt_try == [dir |-> "opf", name |-> src]
       IN  IF src = ""
           THEN /\ SetPages(ps)
                /\ Unresolved
                /\ UNCHANGED <<fs, img_manifest, img_id_counter,
                               copied_images, images_dir>>
           ELSE \E f1 \in Observe(fs, in_doc_dir) :
                   LET fs1 == [fs EXCEPT ![in_doc_dir] = f1]
                   IN  IF f1 # Missing
                       THEN fs' = fs1 /\ ImageFound(ps, in_doc_dir, from)
                       ELSE \E f2 \in Observe(fs1, alt_try) :
                               /\ fs' = [fs1 EXCEPT ![alt_try] = f2]
                               /\ IF f2 # Missing
                                  THEN ImageFound(ps, alt_try, from)
                                  ELSE /\ SetPages(ps)
                                       /\ Unresolved
                                       /\ UNCHANGED <<img_manifest,
                                                      img_id_counter,
                                                      copied_images,
                                                      images_dir>>
    /\ pending_text_nodes' = flush_pending(pending_text_nodes)
    /\ pos' = pos + 1
    /\ UNCHANGED <<pc, err, scratchVars, images_only, css_files, styles_dir,
                   doc_idx, doc_dir, doc, nodes_seen, pkgVars, outVars>>

\* the flush_text() after the loop over the nodes of one document
EndDocument ==
    /\ pc = "descendants"
    /\ pos > Len(doc)
    /\ SetPages(flush_text(Pages, pending_text_nodes,
                           [doc |-> doc_idx, node |-> pos]))
    /\ pending_text_nodes' = flush_pending(pending_text_nodes)
    /\ doc' = <<>>
    /\ pos' = 1
    /\ pc' = "html_candidates"
    /\ UNCHANGED <<err, scratchVars, srcVars, doc_idx, doc_dir, nodes_seen,
                   assetVars, pkgVars, outVars>>

\* html_candidates is exhausted: if not page_manifest: raise
EndCandidates ==
    /\ pc = "html_candidates"
    /\ IF page_manifest = <<>>
       THEN Raise("Keine Seiten entstanden")
       ELSE pc' = "toc.ncx" /\ UNCHANGED <<err, scratchVars>>
    /\ UNCHANGED <<srcVars, walkVars, pageVars, assetVars, pkgVars, outVars>>

(* -------------------------- package documents ------------------------- *)
\* next((v for k, v in md["dc"] if k == "identifier" and v), None)
RECURSIVE existing_identifier(_)
existing_identifier(dc) ==
    IF dc = <<>> THEN ""
    ELSE IF Head(dc)[1] = "identifier" /\ Head(dc)[2] # "" THEN Head(dc)[2]
    ELSE existing_identifier(Tail(dc))

\* a book_uid that is always synthesized
BookUidAlwaysFresh(dc, uuid) == uuid

\* book_uid = existing_identifier or f"urn:uuid:{uuid4()}"
BookUid(dc, uuid) ==
    IF existing_identifier(dc) # "" THEN existing_identifier(dc) ELSE uuid

\* the navMap numbered by enumerate(navpoints), which starts at 0
NavMapFromZero(points) ==
    [i \in 1..Len(points) |->
        [id |-> <<"n", "p">> \o Digits(i - 1), playOrder |-> Digits(i - 1),
         label |-> points[i].label, src |-> points[i].src]]

\* the navMap: one navPoint per entry of navpoints, numbered from 1
NavMap(points) ==
    [i \in 1..Len(points) |->
        [id |-> <<"n", "p">> \o Digits(i), playOrder |-> Digits(i),
         label |-> points[i].label, src |-> points[i].src]]

\* toc.ncx; the metadata of the original package is read here for the first
\* time, so this is where the run learns what parse_opf returned as md
BuildNcx(mds) ==
    /\ pc = "toc.ncx"
    /\ \E dc \in mds, uuid \in Uuids :
          /\ md_dc' = dc
          /\ book_uid' = BookUid(dc, uuid)
    /\ ncx' = [dtb_uid |-> book_uid', navMap |-> NavMap(navpoints)]
    /\ pc' = "content.opf"
    /\ UNCHANGED <<err, scratchVars, srcVars, walkVars, pageVars, assetVars,
                   opf, outVars>>

\* the dc:* elements taken over from the original: not the empty ones and
\* not the identifiers
CopiedDc(dc) ==
    LET kept == SelectSeq(dc, LAMBDA e : e[2] # "" /\ e[1] # "identifier")
    IN  [k \in 1..Len(kept) |->
            [tag |-> kept[k][1], id |-> "", text |-> kept[k][2]]]

\* the metadata element of content.opf, without the meta elements taken
\* over from md["meta"]
Metadata(dc, uid) ==
    Append(CopiedDc(dc), [tag |-> "identifier", id |-> "BookId", text |-> uid])

\* the manifest element of content.opf
Manifest(css, pages, imgs) ==
    <<[id |-> S_ncx, href |-> [dir |-> "", name |-> <<"t", "o", "c", ".", "n", "c", "x">>],
       mt |-> "application/x-dtbncx+xml"]>>
    \o [k \in 1..Len(css) |->
           [id |-> slugify(Stem(css[k].name)), href |-> css[k], mt |-> "text/css"]]
    \o pages
    \o [k \in 1..Len(imgs) |->
           [id |-> slugify(imgs[k].id), href |-> imgs[k].href, mt |-> imgs[k].mt]]

\* the spine element of content.opf
Spine(pages) == [k \in 1..Len(pages) |-> pages[k].id]

\* content.opf
BuildOpf ==
    /\ pc = "content.opf"
    /\ opf' = [unique_identifier |-> "BookId",
               metadata |-> Metadata(md_dc, book_uid),
               manifest |-> Manifest(css_files, page_manifest, img_manifest),
               spine |-> Spine(page_manifest)]
    /\ pc' = "zip"
    /\ UNCHANGED <<err, scratchVars, srcVars, walkVars, pageVars, assetVars,
                   md_dc, book_uid, ncx, outVars>>

(* ------------------------------ the archive --------------------------- *)
S_mimetype == <<"m", "i", "m", "e", "t", "y", "p", "e">>
S_container == <<"c", "o", "n", "t", "a", "i", "n", "e", "r", ".", "x", "m", "l">>
S_content_opf == <<"c", "o", "n", "t", "e", "n", "t", ".", "o", "p", "f">>
S_toc_ncx == <<"t", "o", "c", ".", "n", "c", "x">>

\* the files os.walk(newroot) yields, as (directory, name); the order of the
\* directories is one of those the file system may give
WalkFiles ==
    <<[dir |-> "META-INF", name |-> S_container],
      [dir |-> "OEBPS", name |-> S_content_opf],
      [dir |-> "OEBPS", name |-> S_toc_ncx]>>
    \o Distinct([k \in 1..Len(text_files) |->
                    [dir |-> "OEBPS/Text", name |-> text_files[k].name]])
    \o Distinct([k \in 1..Len(images_dir) |->
                    [dir |-> "OEBPS/Images", name |-> images_dir[k]]])
    \o [k \in 1..Len(styles_dir) |->
           [dir |-> "OEBPS/Styles", name |-> styles_dir[k]]]

\* compress_type of an entry added by z.write(filename, arcname)
WriteCompression == ZipFileCompression

\* zipfile.ZipFile(out_path, "w") and z.writestr("mimetype", ...)
ZipOpen ==
    /\ pc = "zip"
    /\ \/ /\ out_state' = "open"
          /\ out_entries' = <<[dir |-> "", name |-> S_mimetype,
                               compress_type |-> ZIP_STORED]>>
          /\ zip_todo' = SelectSeq(WalkFiles,
                                   LAMBDA f : ~(f.dir = "" /\ f.name = S_mimetype))
          /\ pc' = "os.walk"
          /\ UNCHANGED <<err, scratchVars>>
       \/ /\ Raise("OSError: open")
          /\ UNCHANGED outVars
    /\ UNCHANGED <<srcVars, walkVars, pageVars, assetVars, pkgVars>>

\* z.write(os.path.join(base, fn), rel)
ZipWrite ==
    /\ pc = "os.walk"
    /\ zip_todo # <<>>
    /\ out_entries' = Append(out_entries,
                             [dir |-> Head(zip_todo).dir,
                              name |-> Head(zip_todo).name,
                              compress_type |-> WriteCompression])
    /\ zip_todo' = Tail(zip_todo)
    /\ UNCHANGED <<pc, err, scratchVars, srcVars, walkVars, pageVars, assetVars,
                   pkgVars, out_state>>

\* z.write raises (disk full, I/O error): the with block closes the archive
\* and the exception propagates; nothing removes the file at out_path
ZipWriteFail ==
    /\ pc = "os.walk"
    /\ zip_todo # <<>>
    /\ out_state' = "closed"
    /\ Raise("OSError: write")
    /\ UNCHANGED <<srcVars, walkVars, pageVars, assetVars, pkgVars,
                   out_entries, zip_todo>>

\* the walk is over: the archive is closed, the scratch trees are removed
\* and process_one returns out_path
ZipClose ==
    /\ pc = "os.walk"
    /\ zip_todo = <<>>
    /\ out_state' = "closed"
    /\ tmpdir' = FALSE
    /\ newroot' = FALSE
    /\ pc' = "done"
    /\ UNCHANGED <<err, srcVars, walkVars, pageVars, assetVars, pkgVars,
                   out_entries, zip_todo>>

(* --------------------------- specifications --------------------------- *)
\* The segmentation: documents of any shape in either directory, up to the
\* generated toc.ncx and content.opf.  The package has one stylesheet, a
\* title and an identifier.
Next ==
    \/ Unzip
    \/ FindOpf
    \/ ParseOpf
    \/ BuildStart(OneCss)
    \/ SkipDocument
    \/ OpenDocument(AllDocs, Dirs)
    \/ VisitOther
    \/ VisitImg
    \/ EndDocument
    \/ EndCandidates
    \/ BuildNcx(OneMd)
    \/ BuildOpf

Spec == Init /\ [][Next]_vars

\* The whole run for any metadata; the documents have one node and lie
\* beside the package document.
NextMd ==
    \/ Unzip
    \/ FindOpf
    \/ ParseOpf
    \/ BuildStart(OneCss)
    \/ SkipDocument
    \/ OpenDocument(OneNodeDocs, {"opf"})
    \/ VisitOther
    \/ VisitImg
    \/ EndDocument
    \/ EndCandidates
    \/ BuildNcx(AllMd)
    \/ BuildOpf
    \/ ZipOpen
    \/ ZipWrite
    \/ ZipWriteFail
    \/ ZipClose

SpecMd == Init /\ [][NextMd]_vars

\* The whole run for any stylesheets; the documents have one node and lie
\* beside the package document.
NextCss ==
    \/ Unzip
    \/ FindOpf
    \/ ParseOpf
    \/ BuildStart(AllCss)
    \/ SkipDocument
    \/ OpenDocument(OneNodeDocs, {"opf"})
    \/ VisitOther
    \/ VisitImg
    \/ EndDocument
    \/ EndCandidates
    \/ BuildNcx(OneMd)
    \/ BuildOpf
    \/ ZipOpen
    \/ ZipWrite
    \/ ZipWriteFail
    \/ ZipClose

SpecCss == Init /\ [][NextCss]_vars

(* ------------------------------- claims ------------------------------- *)
ImagePages == {k \in 1..Len(text_files) : text_files[k].kind = "image"}
TextPages == {k \in 1..Len(text_files) : text_files[k].kind = "text"}
PageHref(k) == [dir |-> "Text", name |-> text_files[k].name]
\* content.opf has been generated
OpfWritten == opf.unique_identifier # ""

\* a file passes the placeholder filter unless it is a decodable image
\* narrower than the minimum width or lower than the minimum height
PassesFilter(file) ==
    \/ file.kind = "undecodable"
    \/ file.kind = "image" /\ ~(file.w < min_w) /\ ~(file.h < min_h)

\* the resolved paths that were referenced and passed the filter
AcceptedPaths == {p \in Paths : ref_count[p] > 0 /\ PassesFilter(fs[p])}

RECURSIVE SumRefs(_)
SumRefs(paths) ==
    IF paths = {} THEN 0
    ELSE LET p == CHOOSE q \in paths : TRUE
         IN  ref_count[p] + SumRefs(paths \ {p})

\* C1: once content.opf is generated, the pages in the order they were
\* written, the spine itemrefs and the navPoint targets are one and the same
\* sequence: the k-th itemref names the manifest item of the k-th page, the
\* k-th navPoint has playOrder k and points to the k-th page, the pages were
\* written document by document and, within a document, in traversal order,
\* and no page occurs twice.
C1_SpineNavAndCreationOrderAgree ==
    OpfWritten =>
        /\ Len(opf.spine) = Len(text_files)
        /\ Len(ncx.navMap) = Len(text_files)
        /\ \A k \in 1..Len(text_files) :
              /\ \E m \in 1..Len(opf.manifest) :
                    /\ opf.manifest[m].id = opf.spine[k]
                    /\ opf.manifest[m].href = PageHref(k)
              /\ ncx.navMap[k].src = PageHref(k)
              /\ ncx.navMap[k].playOrder = Digits(k)
        /\ \A j, k \in 1..Len(text_files) :
              j < k =>
                 /\ text_files[j].name # text_files[k].name
                 /\ opf.spine[j] # opf.spine[k]
                 /\ \/ text_files[j].doc < text_files[k].doc
                    \/ /\ text_files[j].doc = text_files[k].doc
                       /\ text_files[j].node <= text_files[k].node

\* C1 witness: a package generated from two documents, with a text page and
\* an image page among at least three pages
C1_Witness ==
    /\ OpfWritten
    /\ Len(text_files) >= 3
    /\ ImagePages # {} /\ TextPages # {}
    /\ text_files[1].doc # text_files[Len(text_files)].doc

\* C2: there are as many image pages as img nodes that resolved to a file
\* which passes the placeholder filter; an img without src, with an
\* unresolvable src or resolving to a placeholder has no page, and its file
\* is never copied, however often it is referenced.
C2_ImagePagesAreAcceptedRefs ==
    /\ Cardinality(ImagePages) = SumRefs(AcceptedPaths)
    /\ \A k \in ImagePages : text_files[k].path \in AcceptedPaths
    /\ \A p \in Paths \ AcceptedPaths : ~IsCopied(copied_images, p)
    /\ AcceptedPaths = {} => images_dir = <<>> /\ img_manifest = <<>>

\* C2 witness: a placeholder that was referenced twice, and an image page
C2_Witness ==
    /\ OpfWritten
    /\ ImagePages # {}
    /\ \E p \in Paths :
          fs[p].kind = "image" /\ ~PassesFilter(fs[p]) /\ ref_count[p] >= 2

\* C3: the files in Images and the image items of the manifest are as many
\* as the distinct accepted resolved paths; every reference to an accepted
\* path has its own image page, all pages of one path show the same asset,
\* and pages of different paths show different assets.
C3_AssetsPerResolvedPath ==
    /\ Len(images_dir) = Cardinality(AcceptedPaths)
    /\ Cardinality({images_dir[k] : k \in 1..Len(images_dir)})
          = Cardinality(AcceptedPaths)
    /\ Len(img_manifest) = Cardinality(AcceptedPaths)
    /\ {img_manifest[k].href.name : k \in 1..Len(img_manifest)}
          = {images_dir[k] : k \in 1..Len(images_dir)}
    /\ \A p \in Paths :
          Cardinality({k \in ImagePages : text_files[k].path = p})
             = IF p \in AcceptedPaths THEN ref_count[p] ELSE 0
    /\ \A j, k \in ImagePages :
          /\ text_files[j].img_href = text_files[k].img_href
                <=> text_files[j].path = text_files[k].path
          /\ \E i \in 1..Len(images_dir) : images_dir[i] = text_files[k].img_href

\* C3 witness: one accepted path referenced twice and a second accepted path
C3_Witness ==
    /\ OpfWritten
    /\ \E p, q \in AcceptedPaths : p # q /\ ref_count[p] >= 2

\* C4: a rejected image is no flush point: a document never yields two text
\* pages in a row, since only an image page or the end of the document ends
\* a text page.
C4_RejectedImageDoesNotSplitText ==
    \A k \in 1..(Len(text_files) - 1) :
        ~ /\ text_files[k].kind = "text"
          /\ text_files[k + 1].kind = "text"
          /\ text_files[k].doc = text_files[k + 1].doc

\* C5: the manifest item ids of the generated content.opf are pairwise
\* distinct.
C5_ManifestIdsDistinct ==
    OpfWritten =>
        \A j, k \in 1..Len(opf.manifest) :
            j # k => opf.manifest[j].id # opf.manifest[k].id

\* C6: when the conversion of an archive has failed, there is no file at the
\* output path.
C6_NoOutputFileAfterFailure == pc = "failed" => out_state = "absent"

\* C7: the first entry of a finished archive is mimetype, stored, and every
\* other entry is compressed.
C7_OnlyMimetypeIsStored ==
    pc = "done" =>
        /\ out_entries[1].name = S_mimetype
        /\ out_entries[1].compress_type = ZIP_STORED
        /\ \A k \in 2..Len(out_entries) :
              out_entries[k].compress_type = ZIP_DEFLATED

\* the identifier elements of the generated metadata
OpfIdentifiers == SelectSeq(opf.metadata, LAMBDA e : e.tag = "identifier")
\* the non-empty identifiers of the source metadata
SourceIdentifiers ==
    {md_dc[k][2] : k \in {i \in 1..Len(md_dc) :
                            md_dc[i][1] = "identifier" /\ md_dc[i][2] # ""}}

\* C8: the generated content.opf has exactly one identifier element, the one
\* with id BookId; its text equals the dtb:uid of toc.ncx, and it is an
\* identifier of the source when the source has a non-empty one and a fresh
\* urn otherwise.
C8_OneIdentifierEverywhere ==
    OpfWritten =>
        /\ Len(OpfIdentifiers) = 1
        /\ OpfIdentifiers[1].id = "BookId"
        /\ OpfIdentifiers[1].text = ncx.dtb_uid
        /\ IF SourceIdentifiers # {} THEN ncx.dtb_uid \in SourceIdentifiers
           ELSE ncx.dtb_uid \in Uuids

\* C8 witness: a finished run on a source with an empty identifier element
\* followed by a non-empty one
C8_Witness ==
    /\ pc = "done"
    /\ Len(md_dc) >= 2
    /\ md_dc[1] = <<"identifier", "">>
    /\ SourceIdentifiers # {}

\* how often the text pages of document d render its text node n
Renderings(d, n) ==
    Cardinality({<<k, c, e>> \in TextPages \X (1..MaxNodes) \X (1..MaxNodes) :
                    /\ text_files[k].doc = d
                    /\ c <= Len(text_files[k].content)
                    /\ e <= Len(text_files[k].content[c])
                    /\ text_files[k].content[c][e] = [node |-> n, name |-> TextName]})

\* C9: no text node of a document is rendered more than once in the text
\* pages of that document.
C9_TextRenderedAtMostOnce ==
    \A d \in 1..MaxDocs, n \in 1..MaxNodes : Renderings(d, n) <= 1

\* the text nodes rendered in page k
TextNodesOf(k) ==
    {text_files[k].content[c][e].node :
        <<c, e>> \in {x \in (1..MaxNodes) \X (1..MaxNodes) :
                        /\ x[1] <= Len(text_files[k].content)
                        /\ x[2] <= Len(text_files[k].content[x[1]])
                        /\ text_files[k].content[x[1]][x[2]].name = TextName}}

\* C10: a text page placed before an image page of the same document holds
\* only text that precedes that image in the document, and a text page placed
\* after it only text that follows it.
C10_TextStaysOnItsSideOfTheImage ==
    \A j \in TextPages, k \in ImagePages :
        text_files[j].doc = text_files[k].doc =>
            \A n \in TextNodesOf(j) :
                /\ j < k => n < text_files[k].node
                /\ j > k => n > text_files[k].node

====
